---- MODULE Spec2Model ----
(***************************************************************************)
(* The secp256k1 base field element Secp256K1Base of                       *)
(* src/src/field/secp256k1.rs: eight u32 limbs, least significant first,   *)
(* holding a possibly non-canonical representative modulo ORDER.           *)
(*                                                                         *)
(* Representation.  A u32 does not fit the model checker's integers, so a  *)
(* u32 is held as its four base-256 digits, least significant first, and   *)
(* a BigUint as its normalised little-endian base-256 digit sequence (no   *)
(* high zero digit; zero is the empty sequence).  An element is a sequence *)
(* of NumLimbs limbs.  All arithmetic is carried out at full width.        *)
(***************************************************************************)
EXTENDS Integers, Sequences, FiniteSets, TLC

Base == 256
NumLimbs == 8
LimbDigits == 4

Max(p, q) == IF p > q THEN p ELSE q
Min(p, q) == IF p < q THEN p ELSE q

(***************************************************************************)
(* num::bigint::BigUint, the external arbitrary-precision primitive.       *)
(***************************************************************************)
D(x, i) == IF i <= Len(x) THEN x[i] ELSE 0

Zeros(n) == [i \in 1..n |-> 0]

\* A digit sequence without its leading (most significant) zero digits.
Norm(x) ==
  IF \A k \in 1..Len(x) : x[k] = 0 THEN <<>>
  ELSE SubSeq(x, 1, CHOOSE k \in 1..Len(x) :
                       x[k] # 0 /\ \A j \in (k + 1)..Len(x) : x[j] = 0)

BigZero == <<>>
BigOne == <<1>>

RECURSIVE AddC(_, _, _, _)
AddC(x, y, i, carry) ==
  IF i > Max(Len(x), Len(y)) THEN (IF carry = 0 THEN <<>> ELSE <<carry>>)
  ELSE <<(D(x, i) + D(y, i) + carry) % Base>>
         \o AddC(x, y, i + 1, (D(x, i) + D(y, i) + carry) \div Base)

BigAdd(x, y) == AddC(x, y, 1, 0)

RECURSIVE SubC(_, _, _, _)
SubC(x, y, i, borrow) ==
  IF i > Len(x) THEN <<>>
  ELSE IF x[i] - D(y, i) - borrow < 0
       THEN <<x[i] - D(y, i) - borrow + Base>> \o SubC(x, y, i + 1, 1)
       ELSE <<x[i] - D(y, i) - borrow>> \o SubC(x, y, i + 1, 0)

\* x - y for x >= y (BigUint subtraction panics on underflow; never used so).
BigSub(x, y) == Norm(SubC(x, y, 1, 0))

RECURSIVE CmpFrom(_, _, _)
CmpFrom(x, y, i) ==
  IF i = 0 THEN 0
  ELSE IF x[i] > y[i] THEN 1
  ELSE IF x[i] < y[i] THEN -1
  ELSE CmpFrom(x, y, i - 1)

\* Ordering of two normalised BigUints: -1, 0 or 1.
BigCmp(x, y) ==
  IF Len(x) > Len(y) THEN 1
  ELSE IF Len(x) < Len(y) THEN -1
  ELSE CmpFrom(x, y, Len(x))

BigGt(x, y) == BigCmp(x, y) = 1
BigLt(x, y) == BigCmp(x, y) = -1

RECURSIVE ColSum(_, _, _, _, _)
ColSum(x, y, k, i, hi) ==
  IF i > hi THEN 0 ELSE x[i] * y[k - i] + ColSum(x, y, k, i + 1, hi)

RECURSIVE Carry(_, _, _)
Carry(cols, k, carry) ==
  IF k > Len(cols) THEN <<>>
  ELSE <<(cols[k] + carry) % Base>> \o Carry(cols, k + 1, (cols[k] + carry) \div Base)

\* Full-width schoolbook product.
BigMul(x, y) ==
  IF x = <<>> \/ y = <<>> THEN <<>>
  ELSE Norm(Carry([k \in 1..(Len(x) + Len(y)) |->
                     ColSum(x, y, k + 1, Max(1, k + 1 - Len(y)), Min(k, Len(x)))],
                  1, 0))

RECURSIVE SubWhile(_, _)
SubWhile(x, m) == IF BigCmp(x, m) >= 0 THEN SubWhile(BigSub(x, m), m) ELSE x

\* x mod m (mod_floor), any m > 0: with n = Len(m) and c = Base^n - m,
\* hi * Base^n + lo is congruent to hi * c + lo, which is smaller.
RECURSIVE BigMod(_, _)
BigMod(x, m) ==
  IF Len(x) <= Len(m) THEN SubWhile(x, m)
  ELSE BigMod(BigAdd(BigMul(SubSeq(x, Len(m) + 1, Len(x)),
                            BigSub(Zeros(Len(m)) \o <<1>>, m)),
                     Norm(SubSeq(x, 1, Len(m)))),
              m)

\* Bit j (0 = least significant) of a BigUint.
Bit(e, j) == (D(e, (j \div 8) + 1) \div (2 ^ (j % 8))) % 2

RECURSIVE QuotSmall(_, _, _, _)
QuotSmall(x, d, i, rem) ==
  IF i = 0 THEN <<>>
  ELSE QuotSmall(x, d, i - 1, (rem * Base + x[i]) % d) \o <<(rem * Base + x[i]) \div d>>

RECURSIVE RemSmall(_, _, _, _)
RemSmall(x, d, i, rem) ==
  IF i = 0 THEN rem ELSE RemSmall(x, d, i - 1, (rem * Base + x[i]) % d)

\* Quotient and remainder by a one-digit divisor.
BigDivSmall(x, d) == Norm(QuotSmall(x, d, Len(x), 0))
BigRemSmall(x, d) == RemSmall(x, d, Len(x), 0)

RECURSIVE DecimalDigits(_)
DecimalDigits(x) ==
  IF x = <<>> THEN <<>>
  ELSE DecimalDigits(BigDivSmall(x, 10)) \o <<BigRemSmall(x, 10)>>

\* Display / Debug of a BigUint: its decimal digits, most significant first.
BigDisplay(x) == IF x = <<>> THEN <<0>> ELSE DecimalDigits(x)

\* BigUint::iter_u64_digits: the 64-bit digits, least significant first, each
\* as its eight base-256 digits.
IterU64Digits(x) ==
  [j \in 1..((Len(x) + 7) \div 8) |-> [t \in 1..8 |-> D(x, 8 * (j - 1) + t)]]

\* BigUint::to_u32_digits.
ToU32Digits(x) ==
  [j \in 1..((Len(x) + LimbDigits - 1) \div LimbDigits) |->
     [t \in 1..LimbDigits |-> D(x, LimbDigits * (j - 1) + t)]]

\* BigUint::from_slice(&[u32]).
FromSlice(limbs) ==
  Norm([k \in 1..(LimbDigits * Len(limbs)) |->
          limbs[((k - 1) \div LimbDigits) + 1][((k - 1) % LimbDigits) + 1]])

\* itertools pad_using(n, |_| 0).
PadUsing(s, n) == IF Len(s) >= n THEN s ELSE s \o [i \in 1..(n - Len(s)) |-> Zeros(LimbDigits)]

(***************************************************************************)
(* Secp256K1Base.                                                          *)
(***************************************************************************)
W(b0, b1, b2, b3) == <<b0, b1, b2, b3>>
ZeroLimb == Zeros(LimbDigits)
FullLimb == W(255, 255, 255, 255)

\* 0xFFFFFC2F, 0xFFFFFFFE, 0xFFFFFFFF x 6.
ORDER_BIGUINT ==
  FromSlice(<<W(47, 252, 255, 255), W(254, 255, 255, 255), FullLimb, FullLimb,
              FullLimb, FullLimb, FullLimb, FullLimb>>)

to_canonical_biguint(e) == BigMod(FromSlice(e), ORDER_BIGUINT)

from_biguint(val) == SubSeq(PadUsing(ToU32Digits(val), NumLimbs), 1, NumLimbs)

ZERO == from_biguint(BigZero)
ONE == from_biguint(BigOne)
TWO == from_biguint(BigAdd(BigOne, BigOne))
NEG_ONE == from_biguint(BigSub(ORDER_BIGUINT, BigOne))

\* Field::is_zero (trait default): equality with ZERO.
is_zero(x) == to_canonical_biguint(x) = to_canonical_biguint(ZERO)

\* Equality on the raw limbs instead of the canonical forms.
EqRawLimbs(x, y) == x = y

\* PartialEq::eq.
eq(x, y) == to_canonical_biguint(x) = to_canonical_biguint(y)

\* Hash::hash: the u64 digits handed to Hasher::write_u64, in order.
hash(x) == IterU64Digits(to_canonical_biguint(x))

\* Display::fmt and Debug::fmt: the decimal digits written.
fmt(x) == BigDisplay(to_canonical_biguint(x))

\* u64 / u128 values are digit sequences of 8 / 16 digits.  `n as u32` keeps
\* the low four digits, `n >> k` (k a multiple of 8) drops the low k/8.
AsU32(n) == [t \in 1..LimbDigits |-> D(n, t)]
Shr(n, bits) == SubSeq(n, (bits \div 8) + 1, Len(n))

\* Only the low word is stored.
FromCanonicalU64LowWord(n) ==
  <<AsU32(n), ZeroLimb, ZeroLimb, ZeroLimb, ZeroLimb, ZeroLimb, ZeroLimb, ZeroLimb>>

from_canonical_u64(n) ==
  <<AsU32(n), AsU32(Shr(n, 32)), ZeroLimb, ZeroLimb, ZeroLimb, ZeroLimb, ZeroLimb, ZeroLimb>>

from_noncanonical_u128(n) ==
  <<AsU32(n), AsU32(Shr(n, 32)), AsU32(Shr(n, 64)), AsU32(Shr(n, 96)),
    ZeroLimb, ZeroLimb, ZeroLimb, ZeroLimb>>

\* n = <<u64, u32>>.
from_noncanonical_u96(n) ==
  <<AsU32(n[1]), AsU32(Shr(n[1], 32)), n[2], ZeroLimb, ZeroLimb, ZeroLimb, ZeroLimb, ZeroLimb>>

neg(x) ==
  IF is_zero(x) THEN ZERO
  ELSE from_biguint(BigSub(ORDER_BIGUINT, to_canonical_biguint(x)))

\* The comparison taken as >=: a sum equal to ORDER is reduced to zero.
AddReduceGe(result) ==
  IF BigCmp(result, ORDER_BIGUINT) >= 0 THEN BigSub(result, ORDER_BIGUINT) ELSE result

AddReduce(result) ==
  IF BigGt(result, ORDER_BIGUINT) THEN BigSub(result, ORDER_BIGUINT) ELSE result

\* The sum stored without the conditional subtraction.
AddNoReduce(x, y) ==
  from_biguint(BigAdd(to_canonical_biguint(x), to_canonical_biguint(y)))

add(x, y) ==
  from_biguint(AddReduce(BigAdd(to_canonical_biguint(x), to_canonical_biguint(y))))

sub(x, y) ==
  from_biguint(BigSub(BigAdd(to_canonical_biguint(x), ORDER_BIGUINT),
                      to_canonical_biguint(y)))

mul(x, y) ==
  from_biguint(BigMod(BigMul(to_canonical_biguint(x), to_canonical_biguint(y)),
                      ORDER_BIGUINT))

\* Iterator::fold(init, f).
RECURSIVE FoldAdd(_, _, _)
FoldAdd(accum, xs, k) == IF k > Len(xs) THEN accum ELSE FoldAdd(add(accum, xs[k]), xs, k + 1)

RECURSIVE FoldMul(_, _, _)
FoldMul(accum, xs, k) == IF k > Len(xs) THEN accum ELSE FoldMul(mul(accum, xs[k]), xs, k + 1)

\* unwrap_or(ZERO), as in a copy of Sum.
ProductOrZero(xs) == IF xs = <<>> THEN ZERO ELSE FoldMul(xs[1], xs, 2)

sum(xs) == FoldAdd(ZERO, xs, 1)

\* Iterator::reduce seeds the accumulator with the first item and is None on
\* an empty iterator; unwrap_or(ONE) covers that case.
product(xs) == IF xs = <<>> THEN ONE ELSE FoldMul(xs[1], xs, 2)

\* ORDER - 1: one subtraction short.
InverseExponentOffByOne == BigSub(ORDER_BIGUINT, BigOne)

\* The exponent of try_inverse: ORDER - 1 - 1.
InverseExponent == BigSub(BigSub(ORDER_BIGUINT, BigOne), BigOne)

\* The number of iterations of the square-and-multiply loop of
\* Field::exp_biguint: the bit-width of the modulus.
ExpBits == 256

\* One iteration of square-and-multiply, most significant bit first: square,
\* then multiply by the base when bit j of the exponent is set.
exp_step(accum, bs, power, j) ==
  IF Bit(power, j) = 1 THEN mul(mul(accum, accum), bs) ELSE mul(accum, accum)


(***************************************************************************)
(* Inputs.  Elements are built by raw limb construction (the tuple field   *)
(* is public), so every limb pattern is a possible operand.                *)
(***************************************************************************)
NumInputs == 6
NumInvInputs == 4
NumTermInputs == 2
NumDraws == 4
Period == 3
MaxSeqLen == 3
MaxChain == 2

\* ORDER itself as stored limbs: a non-canonical zero.
OrderElem == from_biguint(ORDER_BIGUINT)
\* 2^256 - 1.
MaxElem == [k \in 1..NumLimbs |-> FullLimb]
\* ORDER + 1: a non-canonical one.
OrderPlusOne == from_biguint(BigAdd(ORDER_BIGUINT, BigOne))
\* 2^33.
Pow33 == <<ZeroLimb, W(2, 0, 0, 0), ZeroLimb, ZeroLimb, ZeroLimb, ZeroLimb, ZeroLimb, ZeroLimb>>
Mixed == <<W(210, 4, 0, 0), W(7, 91, 205, 21), W(1, 0, 0, 128), ZeroLimb,
           W(0, 0, 1, 0), W(254, 202, 239, 190), ZeroLimb, W(13, 240, 173, 11)>>
THREE == from_biguint(<<3>>)

InputList == <<ZERO, ONE, NEG_ONE, OrderElem, MaxElem, Pow33, OrderPlusOne, Mixed>>
Inputs == {InputList[k] : k \in 1..Min(NumInputs, Len(InputList))}

InvInputList == <<TWO, MaxElem, OrderElem, ZERO, Mixed, NEG_ONE, THREE>>
InvInputs(n) == {InvInputList[k] : k \in 1..Min(n, Len(InvInputList))}

DrawList == <<MaxElem, OrderElem, NEG_ONE, OrderPlusOne, ZERO, Mixed>>
Draws == {DrawList[k] : k \in 1..Min(NumDraws, Len(DrawList))}

\* Option<Self>, and the result slot in general: <<>> is None / nothing.
None == <<>>
Some(v) == <<v>>

VARIABLES
  pc,      \* "ready" | "exp" | "rand" | "returned" | "panicked"
  op,      \* the operation called ("none" before any call)
  arg,     \* the operands of the call
  res,     \* Some(v) for a returned v (try_inverse: the Option it returned)
  a, b, c, \* the operands at hand
  bs, acc, i,   \* exp_biguint: base, accumulator, iterations done
  chain,   \* how many inversions in a row led from a to res
  stream, pos,  \* the randomness source: a periodic stream of 8-word fills
  array    \* rand_from_rng's buffer

vars == <<pc, op, arg, res, a, b, c, bs, acc, i, chain, stream, pos, array>>

loopVars == <<bs, acc, i, chain>>
rngVars == <<stream, pos, array>>
inputVars == <<a, b, c>>

Idle ==
  /\ pc = "ready" /\ op = "none" /\ arg = <<>> /\ res = None
  /\ bs = ZERO /\ acc = ZERO /\ i = 0 /\ chain = 0
  /\ pos = 1 /\ array = ZERO

NoStream == stream = <<>>

\* Operands for the arithmetic operators.
Init == Idle /\ NoStream /\ a \in Inputs /\ b \in Inputs /\ c \in Inputs

InvInit(n) == Idle /\ NoStream /\ a \in InvInputs(n) /\ b \in InvInputs(n) /\ c = ZERO

InitInv == InvInit(NumInvInputs)

InitRand == Idle /\ stream \in [1..Period -> Draws] /\ a = ZERO /\ b = ZERO /\ c = ZERO

InitTerm == InvInit(NumTermInputs) \/ InitRand

\* A call that runs to completion in one step.
Return(name, operands, value) ==
  /\ pc = "ready"
  /\ pc' = "returned" /\ op' = name /\ arg' = operands /\ res' = value
  /\ UNCHANGED <<inputVars, loopVars, rngVars>>

\* The first k items of the cycle a, b, c, a, ...
Items(k) == [j \in 1..k |-> <<a, b, c>>[((j - 1) % 3) + 1]]

\* The low 64 / 128 bits of an element's limbs, as a u64 / u128 argument.
LowDigits(e, limbs) == [k \in 1..(LimbDigits * limbs) |->
                          e[((k - 1) \div LimbDigits) + 1][((k - 1) % LimbDigits) + 1]]

CallAdd == Return("add", <<a, b>>, Some(add(a, b)))
CallSub == Return("sub", <<a, b>>, Some(sub(a, b)))
CallNeg == Return("neg", <<a>>, Some(neg(a)))
CallMul == Return("mul", <<a, b>>, Some(mul(a, b)))

\* The compound assignments: *self = *self op rhs overwrites the receiver a
\* and returns nothing.
Assign(name, value) ==
  /\ pc = "ready"
  /\ pc' = "returned" /\ op' = name /\ arg' = <<a, b>> /\ res' = None
  /\ a' = value
  /\ UNCHANGED <<b, c, loopVars, rngVars>>

CallAddAssign == Assign("add_assign", add(a, b))
CallSubAssign == Assign("sub_assign", sub(a, b))
CallMulAssign == Assign("mul_assign", mul(a, b))

CallSum == \E k \in 0..MaxSeqLen : Return("sum", Items(k), Some(sum(Items(k))))
CallProduct == \E k \in 0..MaxSeqLen : Return("product", Items(k), Some(product(Items(k))))
CallEq == Return("eq", <<a, b>>, Some(eq(a, b)))
CallHash == Return("hash", <<a>>, Some(hash(a)))
CallFmt == Return("fmt", <<a>>, Some(fmt(a)))
\* A native integer argument (u32, u64, u128): its digits, boxed so that it is
\* told from an element by its shape.
Native(n) == <<n>>

CallFromCanonicalU64 ==
  Return("from_canonical_u64", <<Native(LowDigits(a, 2))>>,
         Some(from_canonical_u64(LowDigits(a, 2))))
CallFromNoncanonicalU128 ==
  Return("from_noncanonical_u128", <<Native(LowDigits(a, 4))>>,
         Some(from_noncanonical_u128(LowDigits(a, 4))))
CallFromNoncanonicalU96 ==
  Return("from_noncanonical_u96", <<Native(LowDigits(a, 2)), Native(b[1])>>,
         Some(from_noncanonical_u96(<<LowDigits(a, 2), b[1]>>)))

\* The operators, the folds, the constructors from native integers, and the
\* observers.
OperatorCalls == CallAdd \/ CallSub \/ CallNeg \/ CallMul

AssignCalls == CallAddAssign \/ CallSubAssign \/ CallMulAssign

FoldCalls == CallSum \/ CallProduct

ConstructorCalls ==
  CallFromCanonicalU64 \/ CallFromNoncanonicalU128 \/ CallFromNoncanonicalU96

ObserverCalls == CallEq \/ CallHash \/ CallFmt

Next == OperatorCalls \/ AssignCalls \/ FoldCalls \/ ConstructorCalls \/ ObserverCalls

Spec == Init /\ [][Next]_vars

(***************************************************************************)
(* Inversion and division.  The square-and-multiply loop of exp_biguint    *)
(* takes one step per bit of the exponent.                                 *)
(***************************************************************************)
\* The zero test on the raw limbs.
TryInverseIsNoneRaw(x) == x = ZERO

\* try_inverse's early return.
TryInverseIsNone(x) == is_zero(x)

StartExp(name, operands, x) ==
  /\ pc' = "exp" /\ op' = name /\ arg' = operands /\ res' = None
  /\ bs' = x /\ acc' = ONE /\ i' = 0

\* try_inverse(a), or try_inverse of the inverse just returned.
CallTryInverse ==
  \E x \in (IF pc = "ready" THEN {a} ELSE {})
           \cup (IF pc = "returned" /\ op = "try_inverse" /\ res # None /\ chain < MaxChain
                 THEN {res[1]} ELSE {}) :
    /\ chain' = chain + 1
    /\ IF TryInverseIsNone(x)
       THEN /\ pc' = "returned" /\ op' = "try_inverse" /\ arg' = <<x>> /\ res' = None
            /\ UNCHANGED <<bs, acc, i>>
       ELSE StartExp("try_inverse", <<x>>, x)
    /\ UNCHANGED <<inputVars, rngVars>>

\* a / b: self * rhs.inverse(); inverse() is try_inverse().expect(..).
Divide(name) ==
  /\ pc = "ready"
  /\ IF TryInverseIsNone(b)
     THEN /\ pc' = "panicked" /\ op' = name /\ arg' = <<a, b>> /\ res' = None
          /\ UNCHANGED <<bs, acc, i>>
     ELSE StartExp(name, <<a, b>>, b)
  /\ UNCHANGED <<inputVars, rngVars, chain>>

CallDiv == Divide("div")

\* a /= b: *self = *self / rhs.
CallDivAssign == Divide("div_assign")

ExpStep ==
  /\ pc = "exp" /\ i < ExpBits
  /\ acc' = exp_step(acc, bs, InverseExponent, ExpBits - 1 - i)
  /\ i' = i + 1
  /\ UNCHANGED <<pc, op, arg, res, bs, chain, inputVars, rngVars>>

ExpReturn ==
  /\ pc = "exp" /\ i = ExpBits
  /\ pc' = "returned"
  /\ IF op = "div_assign"
     THEN a' = mul(arg[1], acc) /\ res' = None /\ UNCHANGED <<b, c>>
     ELSE /\ res' = IF op = "div" THEN Some(mul(arg[1], acc)) ELSE Some(acc)
          /\ UNCHANGED inputVars
  /\ UNCHANGED <<op, arg, bs, acc, i, chain, rngVars>>

NextInv == CallTryInverse \/ CallDiv \/ CallDivAssign \/ ExpStep \/ ExpReturn

SpecInv == InitInv /\ [][NextInv]_vars

(***************************************************************************)
(* rand_from_rng.  rng.fill takes the next item of the stream.             *)
(***************************************************************************)
Fill ==
  /\ array' = stream[pos]
  /\ pos' = (pos % Len(stream)) + 1
  /\ UNCHANGED stream

\* The comparison reversed.
RandRejectReversed(v) == BigLt(FromSlice(v), ORDER_BIGUINT)

\* The loop condition: rand_biguint > ORDER.
RandReject(v) == BigGt(FromSlice(v), ORDER_BIGUINT)

CallRand ==
  /\ pc = "ready" /\ stream # <<>>
  /\ pc' = "rand" /\ op' = "rand_from_rng" /\ arg' = <<>> /\ res' = None
  /\ Fill
  /\ UNCHANGED <<inputVars, loopVars>>

RandLoop ==
  /\ pc = "rand" /\ RandReject(array)
  /\ Fill
  /\ UNCHANGED <<pc, op, arg, res, inputVars, loopVars>>

RandReturn ==
  /\ pc = "rand" /\ ~RandReject(array)
  /\ pc' = "returned" /\ res' = Some(array)
  /\ UNCHANGED <<op, arg, inputVars, loopVars, rngVars>>

NextRand == CallRand \/ RandLoop \/ RandReturn

SpecRand == InitRand /\ [][NextRand]_vars

\* A call in progress keeps running: the code is sequential and never yields.
\* The fairness of the exponentiation loop is stated on its counter and on pc:
\* under NextTerm a step that increments i inside the loop is an ExpStep, a
\* step from "exp" at i = ExpBits to "returned" is an ExpReturn, and each is
\* enabled exactly when that action is.  Likewise the sampling loop: at
\* "rand" exactly one of RandLoop and RandReturn is enabled, the first
\* advances pos and the second sets pc.
NextTerm == OperatorCalls \/ AssignCalls \/ ConstructorCalls \/ NextInv \/ NextRand

ExpLoopRuns == pc = "exp" /\ i < ExpBits /\ i' = i + 1

ExpLoopEnds == pc = "exp" /\ i = ExpBits /\ pc' = "returned"

RandLoopRuns ==
  /\ pc = "rand"
  /\ \/ pc' = "rand" /\ pos' = (pos % Len(stream)) + 1
     \/ pc' = "returned" /\ pos' = pos

SpecTerm ==
  /\ InitTerm /\ [][NextTerm]_vars
  /\ WF_i(ExpLoopRuns) /\ WF_pc(ExpLoopEnds)
  /\ WF_<<pc, pos>>(RandLoopRuns)

(***************************************************************************)
(* Properties.                                                             *)
(***************************************************************************)
Stored(e) == FromSlice(e)
Canon(e) == to_canonical_biguint(e)
Returned(name) == pc = "returned" /\ op = name
IsCanonical(e) == BigLt(Stored(e), ORDER_BIGUINT)

\* Stored integers below 2^256 < 2 * ORDER are congruent modulo ORDER exactly
\* when they are equal or differ by ORDER.
Congruent(x, y) ==
  \/ Stored(x) = Stored(y)
  \/ Stored(x) = BigAdd(Stored(y), ORDER_BIGUINT)
  \/ Stored(y) = BigAdd(Stored(x), ORDER_BIGUINT)

RECURSIVE FromDecimal(_, _, _)
FromDecimal(ds, k, accum) ==
  IF k > Len(ds) THEN accum
  ELSE FromDecimal(ds, k + 1, BigAdd(BigMul(accum, <<10>>), Norm(<<ds[k]>>)))

HighLimbsZero(e, from) == \A k \in from..NumLimbs : e[k] = ZeroLimb

\* C1: the element returned by a - b has canonical value
\* (canonical(a) - canonical(b)) mod ORDER, so that (a - b) + b == a and
\* a - b == a + (-b).
C1_SubCorrect ==
  Returned("sub") =>
    /\ BigMod(BigAdd(Canon(res[1]), Canon(b)), ORDER_BIGUINT) = Canon(a)
    /\ eq(add(res[1], b), a)
    /\ eq(res[1], add(a, neg(b)))

\* C2: the element returned by rand_from_rng has a stored integer strictly
\* less than ORDER.
C2_SampleBelowOrder == Returned("rand_from_rng") => IsCanonical(res[1])

\* C3: under ==, addition, negation and multiplication satisfy the ring axioms
\* for all elements, non-canonical ones included, and NEG_ONE + ONE == ZERO,
\* TWO == ONE + ONE.
C3_RingAxioms ==
  /\ Returned("add") =>
       /\ eq(add(res[1], c), add(a, add(b, c)))
       /\ eq(add(a, ZERO), a)
       /\ eq(add(NEG_ONE, ONE), ZERO)
       /\ eq(TWO, add(ONE, ONE))
  /\ Returned("neg") =>
       /\ eq(add(a, res[1]), ZERO)
       /\ eq(neg(res[1]), a)
       /\ eq(neg(ZERO), ZERO)
  /\ Returned("mul") =>
       /\ eq(mul(res[1], c), mul(a, mul(b, c)))
       /\ eq(mul(a, ONE), a)
       /\ eq(mul(a, add(b, c)), add(res[1], mul(a, c)))

C3_Witness ==
  /\ Returned("mul") /\ a = MaxElem /\ b = NEG_ONE /\ c = OrderElem
  /\ ~IsCanonical(a) /\ ~IsCanonical(c)

\* C4: for a with nonzero canonical value try_inverse(a) is Some(x) with
\* a * x == ONE and inverse(inverse(a)) == a, and a / b == a * inverse(b) for
\* b with nonzero canonical value.
C4_InverseCorrect ==
  /\ Returned("try_inverse") /\ ~is_zero(arg[1]) =>
       /\ res # None
       /\ i = ExpBits /\ ExpBits = 8 * Len(InverseExponent)
       /\ Bit(InverseExponent, ExpBits - 1) = 1
       /\ eq(mul(arg[1], res[1]), ONE)
       /\ (chain % 2 = 0 => eq(res[1], a))
  /\ Returned("div") =>
       /\ eq(mul(arg[2], acc), ONE)
       /\ res[1] = mul(arg[1], acc)
       /\ eq(mul(res[1], arg[2]), arg[1])
  /\ Returned("div_assign") =>
       /\ eq(mul(arg[2], acc), ONE)
       /\ a = mul(arg[1], acc) /\ b = arg[2]
       /\ eq(mul(a, b), arg[1])

C4_Witness ==
  /\ Returned("try_inverse") /\ chain = 2 /\ a = MaxElem /\ res # None
  /\ arg[1] # a

\* C5: try_inverse returns None exactly when the canonical value is zero,
\* whatever the stored representation, and a division by a divisor of
\* canonical value zero never yields an element.
C5_ZeroHandling ==
  /\ Returned("try_inverse") => (res = None <=> Canon(arg[1]) = BigZero)
  /\ op \in {"div", "div_assign"} /\ Canon(arg[2]) = BigZero =>
       pc = "panicked" /\ res = None /\ a = arg[1]
  /\ pc = "panicked" => op \in {"div", "div_assign"} /\ Canon(arg[2]) = BigZero

C5_Witness ==
  /\ Returned("try_inverse") /\ arg[1] = OrderElem /\ arg[1] # ZERO /\ res = None

\* C6: a == b iff the stored integers are congruent modulo ORDER; whenever
\* a == b the digits written to the hasher and the decimal text agree, the
\* text being the canonical integer in [0, ORDER), with zero shown as "0".
C6_Identity ==
  /\ Returned("eq") => (res[1] <=> Congruent(a, b))
  /\ Returned("hash") /\ eq(a, b) => res[1] = hash(b)
  /\ Returned("fmt") =>
       /\ eq(a, b) => res[1] = fmt(b)
       /\ FromDecimal(res[1], 1, BigZero) = Canon(a)
       /\ BigLt(FromDecimal(res[1], 1, BigZero), ORDER_BIGUINT)
       /\ res[1][1] = 0 <=> res[1] = <<0>>
       /\ Congruent(a, ZERO) => res[1] = <<0>>

C6_Witness == Returned("hash") /\ a = OrderElem /\ b = ZERO /\ a # b /\ res[1] = hash(b)

\* C7: the native-integer embeddings store their input without reduction:
\* from_canonical_u64 fills limbs 0-1, from_noncanonical_u128 limbs 0-3,
\* from_noncanonical_u96 limbs 0-2, the higher limbs are zero, and the stored
\* integer is below ORDER and is its own canonical value.
C7_Embeddings ==
  /\ Returned("from_canonical_u64") =>
       /\ Len(arg[1][1]) = 8
       /\ LowDigits(res[1], 2) = arg[1][1] /\ HighLimbsZero(res[1], 3)
       /\ Canon(res[1]) = Norm(arg[1][1])
       /\ IsCanonical(res[1])
  /\ Returned("from_noncanonical_u128") =>
       /\ Len(arg[1][1]) = 16
       /\ LowDigits(res[1], 4) = arg[1][1] /\ HighLimbsZero(res[1], 5)
       /\ Canon(res[1]) = Norm(arg[1][1]) /\ Stored(res[1]) = Canon(res[1])
       /\ IsCanonical(res[1])
  /\ Returned("from_noncanonical_u96") =>
       /\ Len(arg[1][1]) = 8 /\ Len(arg[2][1]) = 4
       /\ LowDigits(res[1], 2) = arg[1][1] /\ res[1][3] = arg[2][1]
       /\ HighLimbsZero(res[1], 4)
       /\ Stored(res[1]) = Canon(res[1])
       /\ IsCanonical(res[1])

C7_Witness ==
  /\ Returned("from_canonical_u64") /\ arg[1][1] = [k \in 1..8 |-> 255]
  /\ Canon(res[1]) = arg[1][1]

\* C8, as stated: every call returns a result after finitely many steps, the
\* exponentiation of the inversion, of at most ExpBits iterations, being the
\* only loop: a call that has entered a loop leaves it and returns.
C8_EveryCallReturns ==
  /\ [](pc = "exp" => i <= ExpBits)
  /\ (pc \in {"exp", "rand"}) ~> (pc = "returned")

\* C8, amended: add, sub, neg, mul, their assigning forms and the
\* constructors return in one step;
\* the exponentiation of the inversion runs exactly ExpBits iterations and
\* then returns; a division panics exactly when the
\* divisor's canonical value is zero; rand_from_rng draws again for as long
\* as the draw exceeds ORDER and returns at the first draw that does not.
C8_TerminationAmended ==
  /\ [][pc = "ready" /\ op' \notin {"try_inverse", "div", "div_assign", "rand_from_rng"}
          => pc' = "returned"]_vars
  /\ [](pc = "exp" => i <= ExpBits)
  /\ [](pc = "returned" /\ op \in {"try_inverse", "div"} /\ res # None => i = ExpBits)
  /\ [](Returned("div_assign") => i = ExpBits)
  /\ (pc = "exp") ~> (pc = "returned")
  /\ [](pc = "panicked" <=> op \in {"div", "div_assign"} /\ Canon(arg[2]) = BigZero)
  /\ [][pc = "rand" /\ BigGt(Stored(array), ORDER_BIGUINT) => pc' = "rand"]_vars
  /\ (pc = "rand" /\ ~BigGt(Stored(array), ORDER_BIGUINT)) ~> (pc = "returned")

C8_Witness ==
  /\ Returned("rand_from_rng") /\ pos = 1 /\ stream[1] = MaxElem /\ stream[2] = OrderPlusOne
  /\ res = Some(stream[3])

\* C9, as stated: sum is the left fold of + from ZERO and product the left
\* fold of * from ONE, so product(seq) is the same element as
\* ONE * x1 * ... * xn.
C9_ProductFoldsFromOne ==
  /\ Returned("sum") => res[1] = FoldAdd(ZERO, arg, 1)
  /\ Returned("product") => res[1] = FoldMul(ONE, arg, 1)

\* C9, amended: sum is the left fold of + from ZERO; product is ONE on the
\* empty sequence and otherwise the left fold of * seeded with the first
\* item, so it equals ONE * x1 * ... * xn under == and is the same element
\* except on a one-item sequence, where it is that item as stored.
C9_ProductReduces ==
  /\ Returned("sum") =>
       /\ Len(arg) = 0 => res[1] = ZERO
       /\ Len(arg) > 0 => res[1] = add(sum(SubSeq(arg, 1, Len(arg) - 1)), arg[Len(arg)])
  /\ Returned("product") =>
       /\ eq(res[1], FoldMul(ONE, arg, 1))
       /\ Len(arg) = 0 => res[1] = ONE
       /\ Len(arg) = 1 => res[1] = arg[1]
       /\ Len(arg) > 1 => res[1] = FoldMul(ONE, arg, 1)

C9_Witness ==
  /\ Returned("product") /\ Len(arg) = 1 /\ ~IsCanonical(arg[1])
  /\ res[1] # mul(ONE, arg[1])

\* C10: the stored integer of neg and of mul is in [0, ORDER); that of add is
\* in [0, ORDER], and is ORDER iff canonical(a) + canonical(b) = ORDER; the
\* constants ZERO, ONE, TWO, NEG_ONE are stored as 0, 1, 2, ORDER - 1.
C10_StoredRange ==
  /\ Returned("neg") => IsCanonical(res[1])
  /\ Returned("mul") => IsCanonical(res[1])
  /\ Returned("add") =>
       /\ ~BigGt(Stored(res[1]), ORDER_BIGUINT)
       /\ Stored(res[1]) = ORDER_BIGUINT <=> BigAdd(Canon(a), Canon(b)) = ORDER_BIGUINT
  /\ ZERO = [k \in 1..NumLimbs |-> ZeroLimb]
  /\ ONE = <<W(1, 0, 0, 0), ZeroLimb, ZeroLimb, ZeroLimb, ZeroLimb, ZeroLimb, ZeroLimb, ZeroLimb>>
  /\ TWO = <<W(2, 0, 0, 0), ZeroLimb, ZeroLimb, ZeroLimb, ZeroLimb, ZeroLimb, ZeroLimb, ZeroLimb>>
  /\ NEG_ONE = <<W(46, 252, 255, 255), W(254, 255, 255, 255), FullLimb, FullLimb,
                 FullLimb, FullLimb, FullLimb, FullLimb>>

C10_Witness ==
  /\ Returned("add") /\ a = NEG_ONE /\ b = ONE
  /\ Stored(res[1]) = ORDER_BIGUINT

====
